---------------------------- MODULE Spec2Model ----------------------------
(***************************************************************************)
(* A model of the prime searcher of src/main.cpp: the configuration        *)
(* reader, the menu, Scheme A (range partition, one worker thread per      *)
(* chunk), Scheme B (divisor splitting, up to numThreads worker threads    *)
(* per candidate) and the two result sinks.                                *)
(*                                                                         *)
(* Three specifications:                                                   *)
(*   Spec       the whole program, from main's first line to its return;   *)
(*   SpecDiv    one call isPrimeByDivisorThreads(n, numThreads) with any   *)
(*              arguments, the workers it spawns included;                 *)
(*   SpecRange  one call workerRangeSchemeA(0, startNum, endNum, mode)     *)
(*              with any range, which applies isPrimeSingleThread to       *)
(*              every number of the range.                                 *)
(***************************************************************************)
EXTENDS Integers, Sequences, FiniteSets, TLC

\* ------------------------------------------------------------- bounds
\* The largest threads= value of a configuration file.
MaxThreads == 3
\* The largest maxNumber a Scheme A run is explored with.
MaxRangeN == 12
\* The largest maxNumber= value of a configuration file (Scheme B runs).
MaxDivN == 27
\* The most lines a configuration file holds.
MaxLines == 2
\* The largest candidate of a stand-alone call (SpecDiv, SpecRange).
MaxCand == 81
\* Stand-alone calls take arguments down to -MaxNeg.
MaxNeg == 2
\* Fair runs of Scheme A are explored up to maxNumber = MaxFairN.
MaxFairN == 8

VARIABLES
    configFile,         \* config.txt: [open, lines]; a line is [key, value]
    pc,                 \* where the main thread is
    status,             \* "running", "exit0", "exit1", "sigfpe", "abort"
    numThreads,         \* main's numThreads
    maxNumber,          \* main's maxNumber
    choice,             \* main's choice
    printImmediately,   \* main's printImmediately
    rangeSize,          \* main's rangeSize (Scheme A)
    start,              \* main's start (Scheme A)
    threadsA,           \* main's threadsA: the Scheme A workers, in spawn order
    joinedA,            \* how many of threadsA main has joined
    g_collectedPrimes,  \* the global vector
    g_collectMutex,     \* its mutex: the thread that holds it, or NoThread
    g_printMutex,       \* the print mutex: the thread that holds it, or NoThread
    cout,               \* the prime lines written to std::cout, in order
    bn,                 \* runSchemeB's n: the candidate
    bW,                 \* isPrimeByDivisorThreads' numThreads (its own copy)
    totalDivs,          \* isPrimeByDivisorThreads' totalDivs
    chunkSize,          \* isPrimeByDivisorThreads' chunkSize
    startIndex,         \* isPrimeByDivisorThreads' startIndex
    compositeFound,     \* isPrimeByDivisorThreads' compositeFound
    flagMutex,          \* isPrimeByDivisorThreads' flagMutex: holder or NoThread
    divThreads,         \* isPrimeByDivisorThreads' threads, in spawn order
    joinedB,            \* how many of them the call has joined
    prime,              \* runSchemeB's prime: the verdict of the last call
    tested              \* history: how often each number was handed to a
                        \* primality test (isPrimeSingleThread by a Scheme A
                        \* worker, isPrimeByDivisorThreads by runSchemeB)

mainVars == <<pc, status, numThreads, maxNumber, choice, printImmediately>>
aVars    == <<rangeSize, start, threadsA, joinedA>>
sinkVars == <<g_collectedPrimes, g_collectMutex, g_printMutex, cout>>
bVars    == <<bn, bW, totalDivs, chunkSize, startIndex, compositeFound,
              flagMutex, divThreads, joinedB, prime>>
vars     == <<configFile, mainVars, aVars, sinkVars, bVars, tested>>

\* ------------------------------------------------------------ threads
NoThread   == [k |-> "none", i |-> 0]
MainThread == [k |-> "main", i |-> 0]
\* Scheme A worker i (threadId i, 0-based) and divisor worker t (0-based).
AThread(i) == [k |-> "A", i |-> i]
DThread(t) == [k |-> "D", i |-> t]

\* A lock that never waits.
CanLock_Always(mutex) == TRUE

\* std::lock_guard's constructor returns only once the mutex is free.
CanLock(mutex) == mutex = NoThread

\* A join loop that waits for nothing.
AllJoined_Always(joined, threads) == TRUE

\* A join loop is over once every thread of the vector has been joined.
AllJoined(joined, threads) == joined = Len(threads)

\* ------------------------------------------------- strings and std::stol
\* A string is a sequence of one-character strings.
Digits == <<"0", "1", "2", "3", "4", "5", "6", "7", "8", "9">>
IsDigit(c) == \E k \in 1..10 : Digits[k] = c
DigitVal(c) == (CHOOSE k \in 1..10 : Digits[k] = c) - 1

RECURSIVE SkipSpace(_)
SkipSpace(s) ==
    IF s # <<>> /\ Head(s) = " " THEN SkipSpace(Tail(s)) ELSE s

RECURSIVE ParseDigits(_, _)
ParseDigits(s, acc) ==
    IF s # <<>> /\ IsDigit(Head(s))
    THEN ParseDigits(Tail(s), acc * 10 + DigitVal(Head(s)))
    ELSE acc

\* std::stol(value): leading blanks are skipped, then an optional sign, then
\* the longest run of digits; whatever follows the digits is ignored. With no
\* digit there it throws std::invalid_argument (ok = FALSE).
Stol(value) ==
    LET s    == SkipSpace(value)
        neg  == s # <<>> /\ Head(s) = "-"
        body == IF s # <<>> /\ Head(s) \in {"-", "+"} THEN Tail(s) ELSE s
    IN  IF body = <<>> \/ ~IsDigit(Head(body))
        THEN [ok |-> FALSE, val |-> 0]
        ELSE [ok |-> TRUE,
              val |-> IF neg THEN 0 - ParseDigits(body, 0)
                             ELSE ParseDigits(body, 0)]

\* The decimal numeral of k >= 0.
RECURSIVE NumStr(_)
NumStr(k) ==
    IF k < 10 THEN <<Digits[k + 1]>>
    ELSE NumStr(k \div 10) \o <<Digits[(k % 10) + 1]>>

\* ---------------------------------------------------------- readConfig
\* The loop of readConfig over the lines left, st the values read so far;
\* st.exit is std::exit(1) from a catch block.
RECURSIVE ReadLines(_, _)
ReadLines(lines, st) ==
    IF lines = <<>> THEN st
    ELSE LET line == Head(lines)
             r    == Stol(line.value)
         IN  IF line.key = "threads="
             THEN IF ~r.ok \/ r.val <= 0
                  THEN [st EXCEPT !.exit = TRUE]
                  ELSE ReadLines(Tail(lines),
                         [st EXCEPT !.threads = r.val, !.threadsSet = TRUE])
             ELSE IF line.key = "maxNumber="
             THEN IF ~r.ok \/ r.val <= 1
                  THEN [st EXCEPT !.exit = TRUE]
                  ELSE ReadLines(Tail(lines),
                         [st EXCEPT !.maxNumber = r.val, !.maxNumberSet = TRUE])
             ELSE ReadLines(Tail(lines), st)

\* readConfig(filename, threads, maxNumber): the values it leaves and whether
\* it called std::exit(1).
readConfig(file) ==
    IF ~file.open
    THEN [threads |-> 0, maxNumber |-> 0, threadsSet |-> FALSE,
          maxNumberSet |-> FALSE, exit |-> TRUE]
    ELSE LET st == ReadLines(file.lines,
                     [threads |-> 0, maxNumber |-> 0, threadsSet |-> FALSE,
                      maxNumberSet |-> FALSE, exit |-> FALSE])
         IN  IF st.exit THEN st
             ELSE [st EXCEPT !.exit = ~st.threadsSet \/ ~st.maxNumberSet]

\* A root that under-counts the floor by one.
SqrtLimit_Under(n) ==
    (CHOOSE r \in 0..n : r * r <= n /\ (r + 1) * (r + 1) > n) - 1

\* ------------------------------------------------- isPrimeSingleThread
\* static_cast<long>(std::sqrt(static_cast<long double>(n))), n >= 0: the
\* 64-bit mantissa of long double holds every long, so the cast truncates
\* the exact root's correctly rounded value: the largest r with r*r <= n.
SqrtLimit(n) == CHOOSE r \in 0..n : r * r <= n /\ (r + 1) * (r + 1) > n

\* The for loop of isPrimeSingleThread from divisor d on.
RECURSIVE SingleLoop(_, _, _)
SingleLoop(n, d, limit) ==
    IF d <= limit
    THEN IF n % d = 0 THEN FALSE ELSE SingleLoop(n, d + 2, limit)
    ELSE TRUE

isPrimeSingleThread(n) ==
    IF n < 2 THEN FALSE
    ELSE IF n = 2 THEN TRUE
    ELSE IF n % 2 = 0 THEN FALSE
    ELSE SingleLoop(n, 3, SqrtLimit(n))


\* A sort that leaves the order as it is.
StdSort_Unsorted(s) == s

\* ------------------------------------------------------------ std::sort
RECURSIVE InsertSorted(_, _)
InsertSorted(x, s) ==
    IF s = <<>> THEN <<x>>
    ELSE IF x <= Head(s) THEN <<x>> \o s
    ELSE <<Head(s)>> \o InsertSorted(x, Tail(s))

\* std::sort(begin, end): the same elements in ascending order.
RECURSIVE StdSort(_)
StdSort(s) ==
    IF s = <<>> THEN <<>> ELSE InsertSorted(Head(s), StdSort(Tail(s)))

\* ------------------------------------------------- the initial states
\* The values a configuration line carries: numerals, a negative numeral, a
\* word, a numeral followed by a letter, nothing.
BadValues == {<<"-", "1">>, <<"x">>, <<"2", "x">>, <<>>}
ThreadsLines ==
    {[key |-> "threads=", value |-> v] :
        v \in {NumStr(k) : k \in 0..MaxThreads} \cup BadValues}
MaxNumberLines ==
    {[key |-> "maxNumber=", value |-> v] :
        v \in {NumStr(k) : k \in 0..MaxDivN} \cup BadValues}
OtherLines == {[key |-> "other", value |-> <<>>]}
ConfigLines == ThreadsLines \cup MaxNumberLines \cup OtherLines

ConfigFiles ==
    {[open |-> FALSE, lines |-> <<>>]} \cup
    {[open |-> TRUE, lines |-> l] :
        l \in UNION {[1..k -> ConfigLines] : k \in 0..MaxLines}}

\* No number has been handed to a primality test.
NoTests == [m \in {} |-> 0]

\* The history after one more call of a primality test on n.
Submitted(t, n) ==
    [m \in (DOMAIN t) \cup {n} |->
        IF m = n THEN (IF n \in DOMAIN t THEN t[n] + 1 ELSE 1) ELSE t[m]]

\* What main's locals and the globals hold before main's first statement.
InitLocals ==
    /\ numThreads = 0
    /\ maxNumber = 0
    /\ choice = 0
    /\ printImmediately = FALSE
    /\ rangeSize = 0
    /\ start = 0
    /\ threadsA = <<>>
    /\ joinedA = 0
    /\ g_collectedPrimes = <<>>
    /\ g_collectMutex = NoThread
    /\ g_printMutex = NoThread
    /\ cout = <<>>
    /\ bn = 0
    /\ bW = 0
    /\ totalDivs = 0
    /\ chunkSize = 0
    /\ startIndex = 0
    /\ compositeFound = FALSE
    /\ flagMutex = NoThread
    /\ divThreads = <<>>
    /\ joinedB = 0
    /\ prime = FALSE
    /\ tested = NoTests

Init ==
    /\ configFile \in ConfigFiles
    /\ pc = "readConfig"
    /\ status = "running"
    /\ InitLocals

\* ------------------------------------------------------ main, lines 222-259
\* main calls readConfig: it either exits with status 1 or leaves the two
\* values; the file is closed.
ReadConfig ==
    /\ pc = "readConfig"
    /\ LET st == readConfig(configFile)
       IN  IF st.exit
           THEN /\ pc' = "exited"
                /\ status' = "exit1"
                /\ UNCHANGED <<numThreads, maxNumber>>
           ELSE /\ pc' = "prompt"
                /\ numThreads' = st.threads
                /\ maxNumber' = st.maxNumber
                /\ UNCHANGED status
    /\ configFile' = [open |-> FALSE, lines |-> <<>>]
    /\ UNCHANGED <<choice, printImmediately, aVars, sinkVars, bVars, tested>>

\* What std::cin >> choice may deliver: 0 stands for a failed extraction too
\* (the stream stores 0), 5 for any number past the menu.
MenuInputs == 0..5

\* A menu that takes any number for a selection.
Prompt_AcceptsAny(c) ==
    /\ pc = "prompt"
    /\ c \in {1, 2} => maxNumber <= MaxRangeN
    /\ choice' = c
    /\ pc' = "start"
    /\ UNCHANGED <<configFile, tested, status, numThreads, maxNumber,
                   printImmediately, aVars, sinkVars, bVars>>

\* One round of the do-while: an answer outside 1..4 is asked again. Scheme A
\* runs are explored up to MaxRangeN.
Prompt(c) ==
    /\ pc = "prompt"
    /\ c \in {1, 2} => maxNumber <= MaxRangeN
    /\ choice' = c
    /\ pc' = IF c < 1 \/ c > 4 THEN "prompt" ELSE "start"
    /\ UNCHANGED <<configFile, tested, status, numThreads, maxNumber, printImmediately,
                   aVars, sinkVars, bVars>>

\* Lines 249-265 and 280-283: the mode, the cleared collection, and the first
\* step into the chosen scheme.
StartRun ==
    /\ pc = "start"
    /\ printImmediately' = (choice = 1 \/ choice = 3)
    /\ g_collectedPrimes' = <<>>
    /\ IF choice = 1 \/ choice = 2
       THEN /\ rangeSize' = maxNumber \div numThreads
            /\ start' = 1
            /\ pc' = IF 0 < numThreads THEN "spawnA" ELSE "joinA"
            /\ UNCHANGED <<bn, bW>>
       ELSE /\ bn' = 2
            /\ bW' = numThreads
            /\ pc' = IF 2 <= maxNumber THEN "bCall" ELSE "joinA"
            /\ UNCHANGED <<rangeSize, start>>
    /\ UNCHANGED <<configFile, tested, status, numThreads, maxNumber, choice,
                   threadsA, joinedA, g_collectMutex, g_printMutex, cout,
                   totalDivs, chunkSize, startIndex, compositeFound, flagMutex,
                   divThreads, joinedB, prime>>

\* ------------------------------------------------ Scheme A, lines 264-279
\* A loop that stops one short of endNum.
LoopHeadA_Exclusive(n, endNum) == IF n < endNum THEN "call" ELSE "done"

\* The head of workerRangeSchemeA's for loop.
LoopHeadA(n, endNum) == IF n <= endNum THEN "call" ELSE "done"

\* Chunks of at least one number, whatever the chunk size.
ChunkEnd_AtLeastOne(i, s, size, threads, maxN) ==
    IF i = threads - 1 THEN maxN
    ELSE IF size < 1 THEN s ELSE s + size - 1

\* Chunks that end on the first number of the next one.
ChunkEnd_Overlap(i, s, size, threads, maxN) ==
    IF i = threads - 1 THEN maxN ELSE s + size

\* A last chunk that does not take the remainder.
ChunkEnd_NoRemainder(i, s, size, threads, maxN) == s + size - 1

\* long end = (i == numThreads - 1) ? maxNumber : (start + rangeSize - 1)
ChunkEnd(i, s, size, threads, maxN) ==
    IF i = threads - 1 THEN maxN ELSE s + size - 1

\* The value of start in round i of the spawn loop for numThreads = threads
\* and maxNumber = maxN: 1 in round 0, then the end of the round before + 1.
RECURSIVE StartOfRound(_, _, _)
StartOfRound(i, threads, maxN) ==
    IF i = 0 THEN 1
    ELSE ChunkEnd(i - 1, StartOfRound(i - 1, threads, maxN),
                  maxN \div threads, threads, maxN) + 1

\* One round of the spawn loop: worker i = threadsA.size() gets [start, end].
SpawnA ==
    /\ pc = "spawnA"
    /\ LET i    == Len(threadsA)
           end  == ChunkEnd(i, start, rangeSize, numThreads, maxNumber)
       IN  /\ threadsA' = Append(threadsA,
                 [threadId |-> i, startNum |-> start, endNum |-> end,
                  n |-> start, pc |-> LoopHeadA(start, end), ret |-> FALSE])
           /\ start' = end + 1
           /\ pc' = IF i + 1 < numThreads THEN "spawnA" ELSE "joinA"
    /\ UNCHANGED <<configFile, tested, status, numThreads, maxNumber, choice,
                   printImmediately, rangeSize, joinedA, sinkVars, bVars>>

\* ------------------------------------- workerRangeSchemeA, lines 82-105
\* Worker w (1-based place in threadsA) calls isPrimeSingleThread(n).
ACall(w) ==
    /\ threadsA[w].pc = "call"
    /\ threadsA' = [threadsA EXCEPT ![w].ret = isPrimeSingleThread(threadsA[w].n),
                                    ![w].pc = "ret"]
    /\ tested' = Submitted(tested, threadsA[w].n)
    /\ UNCHANGED <<configFile, mainVars, rangeSize, start, joinedA, sinkVars,
                   bVars>>

\* The call has returned: on a prime the worker goes for the sink's mutex,
\* otherwise to the next number.
ABranch(w) ==
    /\ threadsA[w].pc = "ret"
    /\ LET me == threadsA[w]
       IN  threadsA' = [threadsA EXCEPT ![w] =
             IF me.ret
             THEN [me EXCEPT !.pc = IF printImmediately THEN "lockPrint"
                                                        ELSE "lockCollect"]
             ELSE [me EXCEPT !.n = me.n + 1,
                             !.pc = LoopHeadA(me.n + 1, me.endNum)]]
    /\ UNCHANGED <<configFile, tested, mainVars, rangeSize, start, joinedA, sinkVars,
                   bVars>>

\* std::lock_guard lk(g_printMutex): blocks until the mutex is free.
ALockPrint(w) ==
    /\ threadsA[w].pc = "lockPrint"
    /\ CanLock(g_printMutex)
    /\ g_printMutex' = AThread(threadsA[w].threadId)
    /\ threadsA' = [threadsA EXCEPT ![w].pc = "print"]
    /\ UNCHANGED <<configFile, tested, mainVars, rangeSize, start, joinedA,
                   g_collectedPrimes, g_collectMutex, cout, bVars>>

\* A worker that writes its line and keeps the print mutex.
APrint_KeepsLock(w) ==
    /\ threadsA[w].pc = "print"
    /\ LET me == threadsA[w]
       IN  /\ cout' = Append(cout, [who |-> AThread(me.threadId), n |-> me.n])
           /\ threadsA' = [threadsA EXCEPT ![w].n = me.n + 1,
                              ![w].pc = LoopHeadA(me.n + 1, me.endNum)]
    /\ UNCHANGED <<configFile, tested, mainVars, rangeSize, start, joinedA,
                   g_collectedPrimes, g_collectMutex, g_printMutex, bVars>>

\* The line is written and the guard released at the end of the block.
APrint(w) ==
    /\ threadsA[w].pc = "print"
    /\ LET me == threadsA[w]
       IN  /\ cout' = Append(cout, [who |-> AThread(me.threadId), n |-> me.n])
           /\ threadsA' = [threadsA EXCEPT ![w].n = me.n + 1,
                              ![w].pc = LoopHeadA(me.n + 1, me.endNum)]
    /\ g_printMutex' = NoThread
    /\ UNCHANGED <<configFile, tested, mainVars, rangeSize, start, joinedA,
                   g_collectedPrimes, g_collectMutex, bVars>>

\* std::lock_guard lk(g_collectMutex)
ALockCollect(w) ==
    /\ threadsA[w].pc = "lockCollect"
    /\ CanLock(g_collectMutex)
    /\ g_collectMutex' = AThread(threadsA[w].threadId)
    /\ threadsA' = [threadsA EXCEPT ![w].pc = "collect"]
    /\ UNCHANGED <<configFile, tested, mainVars, rangeSize, start, joinedA,
                   g_collectedPrimes, g_printMutex, cout, bVars>>

\* g_collectedPrimes.push_back(n), and the guard released.
ACollect(w) ==
    /\ threadsA[w].pc = "collect"
    /\ LET me == threadsA[w]
       IN  /\ g_collectedPrimes' = Append(g_collectedPrimes, me.n)
           /\ threadsA' = [threadsA EXCEPT ![w].n = me.n + 1,
                              ![w].pc = LoopHeadA(me.n + 1, me.endNum)]
    /\ g_collectMutex' = NoThread
    /\ UNCHANGED <<configFile, tested, mainVars, rangeSize, start, joinedA,
                   g_printMutex, cout, bVars>>

\* ------------------------------------------------- main, lines 291-317
\* t.join() on the next thread of threadsA: returns once that worker has
\* returned.
JoinA ==
    /\ pc = "joinA"
    /\ joinedA < Len(threadsA)
    /\ threadsA[joinedA + 1].pc = "done"
    /\ joinedA' = joinedA + 1
    /\ UNCHANGED <<configFile, tested, mainVars, rangeSize, start, threadsA, sinkVars,
                   bVars>>

\* Every thread of threadsA is joined (none in Scheme B). In deferred mode the
\* collection is sorted and written, one number after the other.
Emit ==
    /\ pc = "joinA"
    /\ AllJoined(joinedA, threadsA)
    /\ IF ~printImmediately
       THEN LET sorted == StdSort(g_collectedPrimes)
            IN  /\ g_collectedPrimes' = sorted
                /\ cout' = cout \o [k \in 1..Len(sorted) |->
                                      [who |-> MainThread, n |-> sorted[k]]]
       ELSE UNCHANGED <<g_collectedPrimes, cout>>
    /\ pc' = "finish"
    /\ UNCHANGED <<configFile, tested, status, numThreads, maxNumber, choice,
                   printImmediately, aVars, g_collectMutex, g_printMutex, bVars>>

\* The end time is reported and main returns 0.
Finish ==
    /\ pc = "finish"
    /\ pc' = "done"
    /\ status' = "exit0"
    /\ UNCHANGED <<configFile, tested, numThreads, maxNumber, choice, printImmediately,
                   aVars, sinkVars, bVars>>

\* ------------------------------- isPrimeByDivisorThreads, lines 138-198
\* The vector divisors: the odd numbers 3, 5, ... up to limit.
Divisors(limit) ==
    IF limit < 3 THEN <<>> ELSE [k \in 1..((limit - 1) \div 2) |-> 2 * k + 1]

\* a / b of two longs, b # 0: the quotient truncated toward zero.
LongDiv(a, b) ==
    LET abs(x) == IF x < 0 THEN 0 - x ELSE x
        q      == abs(a) \div abs(b)
    IN  IF (a < 0) = (b < 0) THEN q ELSE 0 - q

\* What totalDivs / numThreads may do. Dividing by zero is undefined: the
\* process is killed by the division trap, or the division yields some value.
DivOutcomes(a, b) ==
    IF b # 0
    THEN {[trap |-> FALSE, q |-> LongDiv(a, b)]}
    ELSE {[trap |-> TRUE, q |-> 0]} \cup {[trap |-> FALSE, q |-> v] : v \in -1..1}

\* A last divisor chunk that does not take the remainder.
ChunkEndIndex_NoRemainder(t, first, size, threads, total) == first + size - 1

\* long endIndex = (t == numThreads - 1) ? (totalDivs - 1)
\*                                       : (startIndex + chunkSize - 1)
ChunkEndIndex(t, first, size, threads, total) ==
    IF t = threads - 1 THEN total - 1 ELSE first + size - 1

\* A loop that tests its divisor without looking at the flag first.
LoopHeadD_NoCheck(d, endDiv) == IF d <= endDiv THEN "test" ELSE "done"

\* The head of workerCheckDivRange's for loop.
LoopHeadD(d, endDiv) == IF d <= endDiv THEN "lockCheck" ELSE "done"

\* Whether the spawn loop runs another round: t < numThreads, and no break.
SpawnsMore(t, threads, first, total) == t < threads /\ ~(first > total - 1)

\* A function that takes its limit <= 2 shortcut before it looks at parity.
EarlyReturn_LimitFirst(n) ==
    IF n < 2 THEN "less than 2"
    ELSE IF n = 2 THEN "is 2"
    ELSE IF SqrtLimit(n) <= 2 THEN "limit <= 2"
    ELSE IF n % 2 = 0 THEN "even"
    ELSE IF Len(Divisors(SqrtLimit(n))) = 0 THEN "no divisors"
    ELSE "none"

\* Which of the returns of lines 140-159 isPrimeByDivisorThreads(n, .) takes
\* before it creates the flag or any worker ("none": it goes on to line 162).
EarlyReturn(n) ==
    IF n < 2 THEN "less than 2"
    ELSE IF n = 2 THEN "is 2"
    ELSE IF n % 2 = 0 THEN "even"
    ELSE IF SqrtLimit(n) <= 2 THEN "limit <= 2"
    ELSE IF Len(Divisors(SqrtLimit(n))) = 0 THEN "no divisors"
    ELSE "none"

\* The call isPrimeByDivisorThreads(bn, bW) up to its spawn loop (lines
\* 140-171): a verdict without any worker, or the flag, the mutex, the chunk
\* size and the reserved vector.
BCall ==
    /\ pc = "bCall"
    /\ LET limit == SqrtLimit(bn)
           total == Len(Divisors(limit))
           path  == EarlyReturn(bn)
       IN  IF path \in {"less than 2", "even"}
           THEN /\ prime' = FALSE
                /\ pc' = "bRet"
                /\ UNCHANGED <<status, bW, totalDivs, chunkSize, startIndex,
                               compositeFound, flagMutex, divThreads, joinedB>>
           ELSE IF path \in {"is 2", "limit <= 2", "no divisors"}
           THEN /\ prime' = TRUE
                /\ pc' = "bRet"
                /\ UNCHANGED <<status, bW, totalDivs, chunkSize, startIndex,
                               compositeFound, flagMutex, divThreads, joinedB>>
           ELSE \E out \in DivOutcomes(total, bW) :
                LET threads == IF out.q = 0 THEN 1 ELSE bW
                    size    == IF out.q = 0 THEN total ELSE out.q
                IN  /\ compositeFound' = FALSE
                    /\ flagMutex' = NoThread
                    /\ totalDivs' = total
                    /\ divThreads' = <<>>
                    /\ joinedB' = 0
                    /\ startIndex' = 0
                    /\ IF out.trap
                       THEN \* SIGFPE at line 162
                            /\ status' = "sigfpe"
                            /\ pc' = "exited"
                            /\ UNCHANGED <<bW, chunkSize>>
                       ELSE IF threads < 0
                       THEN \* threads.reserve throws std::length_error,
                            \* nothing catches it: std::terminate
                            /\ status' = "abort"
                            /\ pc' = "exited"
                            /\ bW' = threads
                            /\ chunkSize' = size
                       ELSE /\ bW' = threads
                            /\ chunkSize' = size
                            /\ pc' = IF SpawnsMore(0, threads, 0, total)
                                     THEN "bSpawn" ELSE "bJoin"
                            /\ UNCHANGED status
                    /\ UNCHANGED prime
    /\ tested' = Submitted(tested, bn)
    /\ UNCHANGED <<configFile, numThreads, maxNumber, choice, printImmediately,
                   aVars, sinkVars, bn>>

\* One round of the spawn loop (lines 172-191): worker t = threads.size()
\* gets the divisors divisors[startIndex..endIndex].
BSpawn ==
    /\ pc = "bSpawn"
    /\ LET t        == Len(divThreads)
           divisors == Divisors(SqrtLimit(bn))
           endIndex == ChunkEndIndex(t, startIndex, chunkSize, bW, totalDivs)
           startDiv == divisors[startIndex + 1]
           endDiv   == divisors[endIndex + 1]
       IN  /\ divThreads' = Append(divThreads,
                 [n |-> bn, startDiv |-> startDiv, endDiv |-> endDiv,
                  d |-> startDiv, pc |-> LoopHeadD(startDiv, endDiv)])
           /\ startIndex' = endIndex + 1
           /\ pc' = IF SpawnsMore(t + 1, bW, endIndex + 1, totalDivs)
                    THEN "bSpawn" ELSE "bJoin"
    /\ UNCHANGED <<configFile, tested, status, numThreads, maxNumber, choice,
                   printImmediately, aVars, sinkVars, bn, bW, totalDivs,
                   chunkSize, compositeFound, flagMutex, joinedB, prime>>

\* ------------------------------------- workerCheckDivRange, lines 118-136
\* An early-exit block without its lock_guard.
DLockCheck_NoGuard(t) ==
    /\ divThreads[t].pc = "lockCheck"
    /\ divThreads' = [divThreads EXCEPT ![t].pc = "check"]
    /\ UNCHANGED <<configFile, tested, mainVars, aVars, sinkVars, bn, bW, totalDivs,
                   chunkSize, startIndex, compositeFound, flagMutex, joinedB,
                   prime>>

\* std::lock_guard guard(flagMutex) of the early-exit block.
DLockCheck(t) ==
    /\ divThreads[t].pc = "lockCheck"
    /\ CanLock(flagMutex)
    /\ flagMutex' = DThread(t - 1)
    /\ divThreads' = [divThreads EXCEPT ![t].pc = "check"]
    /\ UNCHANGED <<configFile, tested, mainVars, aVars, sinkVars, bn, bW, totalDivs,
                   chunkSize, startIndex, compositeFound, joinedB, prime>>

\* if (compositeFound) return; and the guard released.
DCheck(t) ==
    /\ divThreads[t].pc = "check"
    /\ divThreads' = [divThreads EXCEPT
                        ![t].pc = IF compositeFound THEN "done" ELSE "test"]
    /\ flagMutex' = NoThread
    /\ UNCHANGED <<configFile, tested, mainVars, aVars, sinkVars, bn, bW, totalDivs,
                   chunkSize, startIndex, compositeFound, joinedB, prime>>

\* if (n % d == 0): on a divisor the worker goes for the mutex, otherwise ++d.
DTest(t) ==
    /\ divThreads[t].pc = "test"
    /\ LET me == divThreads[t]
       IN  divThreads' = [divThreads EXCEPT ![t] =
             IF me.n % me.d = 0
             THEN [me EXCEPT !.pc = "lockSet"]
             ELSE [me EXCEPT !.d = me.d + 1,
                             !.pc = LoopHeadD(me.d + 1, me.endDiv)]]
    /\ UNCHANGED <<configFile, tested, mainVars, aVars, sinkVars, bn, bW, totalDivs,
                   chunkSize, startIndex, compositeFound, flagMutex, joinedB,
                   prime>>

\* std::lock_guard guard(flagMutex) of the divisor block.
DLockSet(t) ==
    /\ divThreads[t].pc = "lockSet"
    /\ CanLock(flagMutex)
    /\ flagMutex' = DThread(t - 1)
    /\ divThreads' = [divThreads EXCEPT ![t].pc = "set"]
    /\ UNCHANGED <<configFile, tested, mainVars, aVars, sinkVars, bn, bW, totalDivs,
                   chunkSize, startIndex, compositeFound, joinedB, prime>>

\* compositeFound = true; return; and the guard released.
DSet(t) ==
    /\ divThreads[t].pc = "set"
    /\ compositeFound' = TRUE
    /\ divThreads' = [divThreads EXCEPT ![t].pc = "done"]
    /\ flagMutex' = NoThread
    /\ UNCHANGED <<configFile, tested, mainVars, aVars, sinkVars, bn, bW, totalDivs,
                   chunkSize, startIndex, joinedB, prime>>

\* th.join() on the next thread of threads (lines 193-195).
BJoin ==
    /\ pc = "bJoin"
    /\ joinedB < Len(divThreads)
    /\ divThreads[joinedB + 1].pc = "done"
    /\ joinedB' = joinedB + 1
    /\ UNCHANGED <<configFile, tested, mainVars, aVars, sinkVars, bn, bW, totalDivs,
                   chunkSize, startIndex, compositeFound, flagMutex, divThreads,
                   prime>>

\* return !compositeFound; (line 197). The records of the joined workers stay
\* until the next call builds its own vector.
BReturn ==
    /\ pc = "bJoin"
    /\ AllJoined(joinedB, divThreads)
    /\ prime' = ~compositeFound
    /\ pc' = "bRet"
    /\ UNCHANGED <<configFile, tested, status, numThreads, maxNumber, choice,
                   printImmediately, aVars, sinkVars, bn, bW, totalDivs,
                   chunkSize, startIndex, compositeFound, flagMutex,
                   divThreads, joinedB>>

\* ----------------------------------------------- runSchemeB, lines 200-220
\* ++n and the loop's test: the next call, or back in main at the join loop.
NextCandidate ==
    /\ bn' = bn + 1
    /\ bW' = numThreads
    /\ pc' = IF bn + 1 <= maxNumber THEN "bCall" ELSE "joinA"

\* if (prime) is false.
BSkip ==
    /\ pc = "bRet"
    /\ ~prime
    /\ NextCandidate
    /\ UNCHANGED <<configFile, tested, status, numThreads, maxNumber, choice,
                   printImmediately, aVars, sinkVars, totalDivs, chunkSize,
                   startIndex, compositeFound, flagMutex, divThreads, joinedB,
                   prime>>

\* std::lock_guard lk(g_printMutex) in runSchemeB.
BLockPrint ==
    /\ pc = "bRet"
    /\ prime
    /\ printImmediately
    /\ CanLock(g_printMutex)
    /\ g_printMutex' = MainThread
    /\ pc' = "bPrint"
    /\ UNCHANGED <<configFile, tested, status, numThreads, maxNumber, choice,
                   printImmediately, aVars, g_collectedPrimes, g_collectMutex,
                   cout, bVars>>

\* The "[B-scheme] Found prime" line, and the guard released.
BPrint ==
    /\ pc = "bPrint"
    /\ cout' = Append(cout, [who |-> MainThread, n |-> bn])
    /\ g_printMutex' = NoThread
    /\ NextCandidate
    /\ UNCHANGED <<configFile, tested, status, numThreads, maxNumber, choice,
                   printImmediately, aVars, g_collectedPrimes, g_collectMutex,
                   totalDivs, chunkSize, startIndex, compositeFound, flagMutex,
                   divThreads, joinedB, prime>>

\* std::lock_guard lk(g_collectMutex) in runSchemeB.
BLockCollect ==
    /\ pc = "bRet"
    /\ prime
    /\ ~printImmediately
    /\ CanLock(g_collectMutex)
    /\ g_collectMutex' = MainThread
    /\ pc' = "bCollect"
    /\ UNCHANGED <<configFile, tested, status, numThreads, maxNumber, choice,
                   printImmediately, aVars, g_collectedPrimes, g_printMutex,
                   cout, bVars>>

\* g_collectedPrimes.push_back(n) in runSchemeB, and the guard released.
BCollect ==
    /\ pc = "bCollect"
    /\ g_collectedPrimes' = Append(g_collectedPrimes, bn)
    /\ g_collectMutex' = NoThread
    /\ NextCandidate
    /\ UNCHANGED <<configFile, tested, status, numThreads, maxNumber, choice,
                   printImmediately, aVars, g_printMutex, cout, totalDivs,
                   chunkSize, startIndex, compositeFound, flagMutex, divThreads,
                   joinedB, prime>>

\* ------------------------------------------------- the specifications
Next ==
    \/ ReadConfig
    \/ \E c \in MenuInputs : Prompt(c)
    \/ StartRun
    \/ SpawnA
    \/ \E w \in 1..Len(threadsA) : ACall(w)
    \/ \E w \in 1..Len(threadsA) : ABranch(w)
    \/ \E w \in 1..Len(threadsA) : ALockPrint(w)
    \/ \E w \in 1..Len(threadsA) : APrint(w)
    \/ \E w \in 1..Len(threadsA) : ALockCollect(w)
    \/ \E w \in 1..Len(threadsA) : ACollect(w)
    \/ JoinA
    \/ Emit
    \/ Finish
    \/ BCall
    \/ BSpawn
    \/ \E t \in 1..Len(divThreads) : DLockCheck(t)
    \/ \E t \in 1..Len(divThreads) : DCheck(t)
    \/ \E t \in 1..Len(divThreads) : DTest(t)
    \/ \E t \in 1..Len(divThreads) : DLockSet(t)
    \/ \E t \in 1..Len(divThreads) : DSet(t)
    \/ BJoin
    \/ BReturn
    \/ BSkip
    \/ BLockPrint
    \/ BPrint
    \/ BLockCollect
    \/ BCollect

\* The whole program.
Spec == Init /\ [][Next]_vars

\* The files that hold a valid configuration and nothing else: maxNumber up
\* to MaxFairN, for runs of either scheme, or above MaxRangeN, for Scheme B.
ValidConfigFiles ==
    {[open |-> TRUE,
      lines |-> <<[key |-> "threads=", value |-> NumStr(w)],
                  [key |-> "maxNumber=", value |-> NumStr(n)]>>] :
        w \in 1..MaxThreads,
        n \in (2..MaxFairN) \cup ((MaxRangeN + 1)..MaxDivN)}

InitValid ==
    /\ configFile \in ValidConfigFiles
    /\ pc = "readConfig"
    /\ status = "running"
    /\ InitLocals

\* The whole program on a valid configuration, under a scheduler that does
\* not stop while some thread can take a step (and a user who goes on
\* answering the menu).
FairSpec == InitValid /\ [][Next]_vars /\ WF_vars(Next)

\* A call isPrimeByDivisorThreads(n, numThreads) of its own: any candidate,
\* any worker budget, the flag's stack slot holding whatever was there.
InitDiv ==
    /\ configFile = [open |-> FALSE, lines |-> <<>>]
    /\ pc = "bCall"
    /\ status = "running"
    /\ bn \in (0 - MaxNeg)..MaxCand
    /\ bW \in (0 - MaxThreads)..MaxThreads
    /\ numThreads = bW
    /\ maxNumber = bn
    /\ compositeFound \in BOOLEAN
    /\ choice = 0
    /\ printImmediately = FALSE
    /\ rangeSize = 0
    /\ start = 0
    /\ threadsA = <<>>
    /\ joinedA = 0
    /\ g_collectedPrimes = <<>>
    /\ g_collectMutex = NoThread
    /\ g_printMutex = NoThread
    /\ cout = <<>>
    /\ totalDivs = 0
    /\ chunkSize = 0
    /\ startIndex = 0
    /\ flagMutex = NoThread
    /\ divThreads = <<>>
    /\ joinedB = 0
    /\ prime = FALSE
    /\ tested = NoTests

NextDiv ==
    \/ BCall
    \/ BSpawn
    \/ \E t \in 1..Len(divThreads) : DLockCheck(t)
    \/ \E t \in 1..Len(divThreads) : DCheck(t)
    \/ \E t \in 1..Len(divThreads) : DTest(t)
    \/ \E t \in 1..Len(divThreads) : DLockSet(t)
    \/ \E t \in 1..Len(divThreads) : DSet(t)
    \/ BJoin
    \/ BReturn

SpecDiv == InitDiv /\ [][NextDiv]_vars

\* A call workerRangeSchemeA(0, startNum, endNum, printImmediately) of its
\* own: a single number, or every number from startNum to MaxCand.
InitRange ==
    /\ configFile = [open |-> FALSE, lines |-> <<>>]
    /\ pc = "workerCall"
    /\ status = "running"
    /\ printImmediately \in BOOLEAN
    /\ \E s \in (0 - MaxNeg)..MaxCand : \E e \in {s, MaxCand} :
          threadsA = <<[threadId |-> 0, startNum |-> s, endNum |-> e, n |-> s,
                        pc |-> LoopHeadA(s, e), ret |-> FALSE]>>
    /\ numThreads = 1
    /\ maxNumber = MaxCand
    /\ choice = 0
    /\ rangeSize = 0
    /\ start = 0
    /\ joinedA = 0
    /\ g_collectedPrimes = <<>>
    /\ g_collectMutex = NoThread
    /\ g_printMutex = NoThread
    /\ cout = <<>>
    /\ bn = 0
    /\ bW = 0
    /\ totalDivs = 0
    /\ chunkSize = 0
    /\ startIndex = 0
    /\ compositeFound = FALSE
    /\ flagMutex = NoThread
    /\ divThreads = <<>>
    /\ joinedB = 0
    /\ prime = FALSE
    /\ tested = NoTests

NextRange ==
    \/ \E w \in 1..Len(threadsA) : ACall(w)
    \/ \E w \in 1..Len(threadsA) : ABranch(w)
    \/ \E w \in 1..Len(threadsA) : ALockPrint(w)
    \/ \E w \in 1..Len(threadsA) : APrint(w)
    \/ \E w \in 1..Len(threadsA) : ALockCollect(w)
    \/ \E w \in 1..Len(threadsA) : ACollect(w)

SpecRange == InitRange /\ [][NextRange]_vars

\* ------------------------------------------------------ the properties
\* A trial-division reference of its own: n has no divisor in 2..n-1.
IsPrimeRef(n) == n >= 2 /\ \A d \in 2..(n - 1) : n % d # 0
PrimesUpTo(N) == {p \in 1..N : IsPrimeRef(p)}

\* The numbers of the prime lines written so far, in order.
Reported == [k \in 1..Len(cout) |-> cout[k].n]
Range(s) == {s[k] : k \in 1..Len(s)}
NoDuplicates(s) == \A i, j \in 1..Len(s) : i # j => s[i] # s[j]
StrictlyAscending(s) == \A i \in 1..(Len(s) - 1) : s[i] < s[i + 1]
SchemeA == choice = 1 \/ choice = 2
SchemeB == choice = 3 \/ choice = 4

\* C1: the numbers reported are primes of [1, maxNumber], none twice, at every
\* moment of a run of either scheme in either mode; when main has returned 0
\* they are all the primes of [1, maxNumber].
C1_ReportsExactlyThePrimes ==
    /\ Range(Reported) \subseteq PrimesUpTo(maxNumber)
    /\ NoDuplicates(Reported)
    /\ status = "exit0" => Range(Reported) = PrimesUpTo(maxNumber)

\* A finished immediate-mode run of several Scheme A workers whose lines came
\* out of numeric order.
C1_Witness ==
    /\ status = "exit0"
    /\ choice = 1
    /\ numThreads >= 2
    /\ \E k \in 1..(Len(cout) - 1) : cout[k].n > cout[k + 1].n

\* C2: when isPrimeByDivisorThreads(n, W), W >= 1, has joined its workers and
\* returned, its verdict is that of isPrimeSingleThread(n); and when it built
\* a flag, the verdict is 'prime' exactly if the flag is not set.
C2_VerdictMatchesOracle ==
    (pc = "bRet" /\ numThreads >= 1) =>
        /\ prime = isPrimeSingleThread(bn)
        /\ totalDivs > 0 => (prime = ~compositeFound)

\* A composite found by several workers, one of which left early: it stopped
\* at a divisor of its subrange that does not divide n.
C2_Witness ==
    /\ pc = "bRet"
    /\ numThreads >= 2
    /\ ~prime
    /\ Len(divThreads) >= 2
    /\ \E t \in 1..Len(divThreads) :
          /\ divThreads[t].d <= divThreads[t].endDiv
          /\ bn % divThreads[t].d # 0

\* The numbers of worker w's assignment [startNum, endNum].
Assignment(w) == threadsA[w].startNum .. threadsA[w].endNum

\* C3: once main has spawned the Scheme A workers there are numThreads
\* assignments, pairwise disjoint, whose union is 1..maxNumber; the last ends
\* at maxNumber; and none is empty when numThreads <= maxNumber.
C3_AssignmentsPartitionRange ==
    (SchemeA /\ pc \in {"joinA", "finish", "done"}) =>
        /\ Len(threadsA) = numThreads
        /\ \A v, w \in 1..Len(threadsA) :
              v # w => Assignment(v) \cap Assignment(w) = {}
        /\ UNION {Assignment(w) : w \in 1..Len(threadsA)} = 1..maxNumber
        /\ threadsA[Len(threadsA)].endNum = maxNumber
        /\ numThreads <= maxNumber =>
              \A w \in 1..Len(threadsA) : Assignment(w) # {}

\* Several workers, maxNumber not a multiple of numThreads: the last
\* assignment is longer than the others.
C3_Witness ==
    /\ SchemeA
    /\ pc = "joinA"
    /\ numThreads >= 2
    /\ maxNumber % numThreads # 0
    /\ Cardinality(Assignment(numThreads)) > Cardinality(Assignment(1))

\* C4: when main has returned 0, the numbers written are the primes of
\* [1, maxNumber] in either mode, so a deferred run writes the set an
\* immediate run of the same scheme, maxNumber and numThreads writes; and the
\* deferred list is strictly ascending.
C4_DeferredSortedSameSet ==
    status = "exit0" =>
        /\ Range(Reported) = {n \in 1..maxNumber : isPrimeSingleThread(n)}
        /\ ~printImmediately => StrictlyAscending(Reported)

\* A finished deferred run of several Scheme A workers with primes in more
\* than one assignment.
C4_Witness ==
    /\ status = "exit0"
    /\ choice = 2
    /\ numThreads >= 2
    /\ Len(cout) >= 3
    /\ \E w \in 2..Len(threadsA) :
          \E k \in 1..Len(cout) : cout[k].n >= threadsA[w].startNum

\* Every worker of the run, of either scheme, has returned and been joined.
AllWorkersJoined ==
    /\ joinedA = Len(threadsA)
    /\ \A w \in 1..Len(threadsA) : threadsA[w].pc = "done"
    /\ joinedB = Len(divThreads)
    /\ \A t \in 1..Len(divThreads) : divThreads[t].pc = "done"

\* C5: in deferred mode nothing is written while main is before the end of
\* its join loop or a worker is running or not joined; what is written is the
\* sorted collection, each element once.
C5_DeferredEmitsAfterJoin ==
    (~printImmediately /\ cout # <<>>) =>
        /\ pc \in {"finish", "done"}
        /\ AllWorkersJoined
        /\ SchemeA => Len(threadsA) = numThreads
        /\ Reported = g_collectedPrimes
        /\ StrictlyAscending(g_collectedPrimes)

\* A deferred Scheme A run of several workers that has written its list.
C5_Witness ==
    /\ choice = 2
    /\ numThreads >= 2
    /\ pc = "finish"
    /\ Len(cout) >= 2

\* The threads inside a block that writes a 'Found prime' line.
Printing ==
    {AThread(threadsA[w].threadId) : w \in {v \in 1..Len(threadsA) :
                                              threadsA[v].pc = "print"}}
    \cup (IF pc = "bPrint" THEN {MainThread} ELSE {})

\* C6: at most one thread is inside a block that writes a 'Found prime' line,
\* and it is the thread that holds g_printMutex.
C6_PrintMutualExclusion ==
    /\ Cardinality(Printing) <= 1
    /\ \A th \in Printing : g_printMutex = th

\* One Scheme A worker is writing its line while another waits for the mutex.
C6_Witness ==
    \E v, w \in 1..Len(threadsA) :
        /\ threadsA[v].pc = "print"
        /\ threadsA[w].pc = "lockPrint"

\* C7: a call with numThreads <= 0 is rejected as an invalid configuration: it
\* neither divides by numThreads nor spawns a worker. Stated for the
\* candidates whose call gets as far as line 162, the odd n >= 9; for the
\* others the call returns before it looks at numThreads.
C7_NonPositiveBudgetRejected ==
    (numThreads <= 0 /\ bn >= 9 /\ bn % 2 = 1 /\ pc # "bCall") =>
        /\ status = "invalid_configuration"
        /\ divThreads = <<>>

\* A string that is a decimal numeral and nothing else.
IsNumeral(v) ==
    LET body == IF v # <<>> /\ Head(v) \in {"-", "+"} THEN Tail(v) ELSE v
    IN  body # <<>> /\ \A k \in 1..Len(body) : IsDigit(body[k])

\* A configuration the interface calls invalid: a key is missing, a value is
\* not a number, threads <= 0 or maxNumber <= 1.
InvalidConfig(file) ==
    \/ ~file.open
    \/ ~\E k \in 1..Len(file.lines) : file.lines[k].key = "threads="
    \/ ~\E k \in 1..Len(file.lines) : file.lines[k].key = "maxNumber="
    \/ \E k \in 1..Len(file.lines) :
          LET line == file.lines[k]
          IN  \/ line.key \in {"threads=", "maxNumber="} /\ ~IsNumeral(line.value)
              \/ line.key = "threads=" /\ Stol(line.value).val <= 0
              \/ line.key = "maxNumber=" /\ Stol(line.value).val <= 1

\* C8: on an invalid configuration readConfig ends the process with status 1,
\* before a worker exists; and workers are only ever spawned with
\* numThreads >= 1 and maxNumber >= 2.
C8_InvalidConfigExits ==
    [][ /\ (pc = "readConfig" /\ InvalidConfig(configFile)) =>
              (pc' = "exited" /\ status' = "exit1")
        /\ (threadsA' # <<>> \/ divThreads' # <<>>) =>
              (numThreads' >= 1 /\ maxNumber' >= 2) ]_vars

\* C9: isPrimeSingleThread(n) has returned to the worker that called it: the
\* value is TRUE exactly if n is prime, for every n of the range, the
\* numbers below 2, the even numbers and the odd squares included.
C9_OracleIffPrime ==
    \A w \in 1..Len(threadsA) :
        threadsA[w].pc = "ret" => (threadsA[w].ret = IsPrimeRef(threadsA[w].n))

\* The call returned FALSE for the square of an odd prime.
C9_Witness ==
    \E w \in 1..Len(threadsA) :
        /\ threadsA[w].pc = "ret"
        /\ ~threadsA[w].ret
        /\ \E p \in 3..threadsA[w].n :
              IsPrimeRef(p) /\ p * p = threadsA[w].n

\* A worker inside one of its two lock_guard blocks holds flagMutex.
WorkersAccessUnderLock ==
    \A t \in 1..Len(divThreads) :
        divThreads[t].pc \in {"check", "set"} => flagMutex = DThread(t - 1)

\* C10 as amended: the flag is false when the spawn loop begins; while the
\* call spawns and joins, a set flag stays set; a worker reads or writes the
\* flag only while it holds flagMutex; and a worker that checks a set flag
\* returns instead of testing its divisor.
C10_FlagMonotoneWorkersLocked ==
    /\ [](/\ (pc = "bSpawn" /\ divThreads = <<>>) => ~compositeFound
          /\ WorkersAccessUnderLock)
    /\ [][ /\ (pc \in {"bSpawn", "bJoin"} /\ pc' \in {"bSpawn", "bJoin", "bRet"}
               /\ compositeFound) => compositeFound'
           /\ \A t \in 1..Len(divThreads) :
                 (divThreads[t].pc = "check" /\ compositeFound) =>
                     divThreads'[t].pc \in {"check", "done"} ]_vars

\* A worker is inside its early-exit block and the flag is set.
C10_Witness ==
    \E t \in 1..Len(divThreads) :
        /\ divThreads[t].pc = "check"
        /\ compositeFound
        /\ flagMutex = DThread(t - 1)

\* C10 as stated: every read and write of the flag is made by a thread that
\* holds flagMutex, the read of line 197 by the calling thread included.
C10_EveryAccessUnderLock ==
    /\ WorkersAccessUnderLock
    /\ (pc = "bJoin" /\ joinedB = Len(divThreads)) => flagMutex = MainThread

\* C11: a divisor worker gets to the test of a divisor d only from its
\* early-exit block, having read the flag unset for that same d; a worker that
\* reads the flag set returns, and a worker that has returned never tests
\* again nor moves on in its subrange; a worker whose d divides n takes
\* flagMutex, sets the flag under it and returns.
C11_CheckBeforeEveryTest ==
    /\ [](\A t \in 1..Len(divThreads) :
            divThreads[t].pc = "lockSet" => divThreads[t].n % divThreads[t].d = 0)
    /\ [][ \A t \in 1..Len(divThreads') :
            LET new == divThreads'[t]
            IN  IF t > Len(divThreads)
                THEN new.pc \in {"lockCheck", "done"}
                ELSE LET old == divThreads[t]
                     IN  /\ (new.pc = "test" /\ old.pc # "test") =>
                               (old.pc = "check" /\ ~compositeFound /\ new.d = old.d)
                         /\ (old.pc = "check" /\ compositeFound) =>
                               new.pc \in {"check", "done"}
                         /\ old.pc = "done" => new = old
                         /\ (old.pc = "test" /\ old.n % old.d = 0) =>
                               new.pc \in {"test", "lockSet"}
                         /\ (old.pc = "lockSet" /\ new.pc # "lockSet") =>
                               (new.pc = "set" /\ flagMutex' = DThread(t - 1))
                         /\ (old.pc = "set" /\ new.pc # "set") =>
                               (new.pc = "done" /\ compositeFound'
                                /\ flagMutex = DThread(t - 1)) ]_vars

\* A worker has returned on seeing the flag set, with more than one divisor of
\* its subrange left untested.
C11_Witness ==
    \E t \in 1..Len(divThreads) :
        /\ divThreads[t].pc = "done"
        /\ compositeFound
        /\ divThreads[t].d < divThreads[t].endDiv
        /\ divThreads[t].n % divThreads[t].d # 0

\* C12: in Scheme B a call has at most numThreads workers, all for the one
\* candidate; a worker runs only while the call for its candidate is in its
\* spawn or join loop; outside these loops every worker has returned and been
\* joined and nobody holds flagMutex; and a call's flag and mutex start out
\* unset and free, whatever the call before left.
C12_CandidatesDoNotOverlap ==
    SchemeB =>
        /\ Len(divThreads) <= numThreads
        /\ \A t \in 1..Len(divThreads) :
              divThreads[t].pc # "done" =>
                  (divThreads[t].n = bn /\ pc \in {"bSpawn", "bJoin"})
        /\ \A t, u \in 1..Len(divThreads) : divThreads[t].n = divThreads[u].n
        /\ pc \notin {"bSpawn", "bJoin"} =>
              /\ joinedB = Len(divThreads)
              /\ flagMutex = NoThread
        /\ (pc = "bSpawn" /\ divThreads = <<>>) =>
              (~compositeFound /\ flagMutex = NoThread)

\* Two workers of one candidate are running, after the call for an earlier
\* candidate had set its flag.
C12_Witness ==
    /\ SchemeB
    /\ bn > 9
    /\ \E t, u \in 1..Len(divThreads) :
          /\ t # u
          /\ divThreads[t].pc # "done"
          /\ divThreads[u].pc # "done"

\* The divisors of worker t's subrange.
SubRange(t) ==
    {d \in divThreads[t].startDiv .. divThreads[t].endDiv : d % 2 = 1}

\* C13: when a call with numThreads >= 1 has left its spawn loop, it has
\* spawned between 1 and numThreads workers; their subranges are non-empty,
\* follow one another without gap or overlap from 3 to the last divisor, so
\* each divisor is in exactly one; every worker but the last has
\* totalDivs / numThreads divisors; and with numThreads > totalDivs there is
\* one worker, with all of them.
C13_DivisorChunksCover ==
    (pc = "bJoin" /\ numThreads >= 1) =>
        LET D    == Divisors(SqrtLimit(bn))
            k    == Len(divThreads)
        IN  /\ 1 <= k /\ k <= numThreads
            /\ totalDivs = Len(D)
            /\ divThreads[1].startDiv = D[1]
            /\ divThreads[k].endDiv = D[Len(D)]
            /\ \A t \in 1..k : divThreads[t].startDiv <= divThreads[t].endDiv
            /\ \A t \in 1..(k - 1) :
                  divThreads[t + 1].startDiv = divThreads[t].endDiv + 2
            /\ \A i \in 1..Len(D) :
                  Cardinality({t \in 1..k : D[i] \in SubRange(t)}) = 1
            /\ numThreads <= totalDivs =>
                  /\ k = numThreads
                  /\ \A t \in 1..(k - 1) :
                        Cardinality(SubRange(t)) = totalDivs \div numThreads
            /\ numThreads > totalDivs =>
                  (k = 1 /\ SubRange(1) = Range(D))

\* Several workers, the divisors not a multiple of numThreads: the last
\* subrange is longer than the first.
C13_Witness ==
    /\ pc = "bJoin"
    /\ numThreads >= 2
    /\ Len(divThreads) = numThreads
    /\ totalDivs % numThreads # 0
    /\ Cardinality(SubRange(numThreads)) > Cardinality(SubRange(1))

\* When main is past its join loop, every number of lo..maxNumber has been
\* handed to a primality test once, and no other number has.
TestedOnceFrom(lo) ==
    /\ DOMAIN tested = lo..maxNumber
    /\ \A n \in lo..maxNumber : tested[n] = 1

\* C14: no number is ever handed to a primality test twice; a number tested
\* in Scheme A lies in the assignment of exactly one worker; once the run is
\* past its join loop, Scheme A has tested each number of 1..maxNumber once
\* and Scheme B each number of 2..maxNumber once (runSchemeB starts at 2);
\* and each divisor of a candidate is in the subrange of exactly one worker.
C14_EveryUnitOnce ==
    /\ \A n \in DOMAIN tested : tested[n] = 1 /\ n \in 1..maxNumber
    /\ SchemeA =>
          \A n \in DOMAIN tested :
              Cardinality({w \in 1..Len(threadsA) : n \in Assignment(w)}) = 1
    /\ (SchemeA /\ pc \in {"finish", "done"}) => TestedOnceFrom(1)
    /\ (SchemeB /\ pc \in {"finish", "done"}) => TestedOnceFrom(2)
    /\ (SchemeB /\ pc = "bJoin") =>
          \A i \in 1..totalDivs :
              Cardinality({t \in 1..Len(divThreads) :
                              Divisors(SqrtLimit(bn))[i] \in SubRange(t)}) = 1

\* A Scheme B run with two divisor workers for its last candidate has ended.
C14_Witness ==
    /\ SchemeB
    /\ pc = "done"
    /\ maxNumber >= 25
    /\ numThreads >= 2
    /\ TestedOnceFrom(2)

\* C14 as the spec words it: in either scheme each number of 1..maxNumber has
\* been handed to a primality test exactly once when the run ends.
C14_EveryNumberOfRangeTested ==
    pc \in {"finish", "done"} => TestedOnceFrom(1)

\* C15: isPrimeByDivisorThreads returns before it has a flag or a worker for
\* n < 2, n = 2, even n and limit <= 2; 4 leaves by the parity return and is
\* not prime; the limit <= 2 return is taken for 3, 5 and 7 only, all primes,
\* with verdict true; and 9 is not prime whatever numThreads >= 1 is.
C15_EarlyReturnsAndNine ==
    /\ EarlyReturn(bn) # "none" =>
          (divThreads = <<>> /\ pc \in {"bCall", "bRet"})
    /\ (bn < 2 \/ bn = 2 \/ bn % 2 = 0 \/ SqrtLimit(bn) <= 2) =>
          EarlyReturn(bn) # "none"
    /\ bn = 4 => EarlyReturn(bn) = "even"
    /\ EarlyReturn(bn) = "limit <= 2" => (bn \in {3, 5, 7} /\ IsPrimeRef(bn))
    /\ bn \in {3, 5, 7} => EarlyReturn(bn) = "limit <= 2"
    /\ (pc = "bRet" /\ EarlyReturn(bn) = "limit <= 2") => prime
    /\ (pc = "bRet" /\ bn = 4) => ~prime
    /\ (pc = "bRet" /\ bn = 9 /\ numThreads >= 1) => ~prime

\* The call for 9 with the largest worker budget has returned false, from its
\* one worker.
C15_Witness ==
    /\ pc = "bRet"
    /\ bn = 9
    /\ numThreads = MaxThreads
    /\ Len(divThreads) = 1
    /\ ~prime

\* The mutexes thread th holds.
HeldBy(th) ==
    {m \in {"print", "collect", "flag"} :
        \/ m = "print" /\ g_printMutex = th
        \/ m = "collect" /\ g_collectMutex = th
        \/ m = "flag" /\ flagMutex = th}

\* Where main spawns or joins workers.
SpawnsOrJoins == pc \in {"spawnA", "joinA", "bCall", "bSpawn", "bJoin"}

\* Each held mutex is held by a thread that is inside the one-statement
\* block the guard protects, whose statement can run at once.
HoldersInsideBlock ==
    /\ HeldBy(MainThread) =
          (IF pc = "bPrint" THEN {"print"}
           ELSE IF pc = "bCollect" THEN {"collect"} ELSE {})
    /\ pc = "bPrint" => ENABLED BPrint
    /\ pc = "bCollect" => ENABLED BCollect
    /\ \A w \in 1..Len(threadsA) :
          /\ HeldBy(AThread(threadsA[w].threadId)) =
                (IF threadsA[w].pc = "print" THEN {"print"}
                 ELSE IF threadsA[w].pc = "collect" THEN {"collect"} ELSE {})
          /\ threadsA[w].pc = "print" => ENABLED APrint(w)
          /\ threadsA[w].pc = "collect" => ENABLED ACollect(w)
    /\ \A t \in 1..Len(divThreads) :
          /\ HeldBy(DThread(t - 1)) =
                (IF divThreads[t].pc \in {"check", "set"} THEN {"flag"} ELSE {})
          /\ divThreads[t].pc = "check" => ENABLED DCheck(t)
          /\ divThreads[t].pc = "set" => ENABLED DSet(t)
    /\ g_printMutex \in {NoThread, MainThread}
                          \cup {AThread(threadsA[w].threadId) : w \in 1..Len(threadsA)}
    /\ g_collectMutex \in {NoThread, MainThread}
                          \cup {AThread(threadsA[w].threadId) : w \in 1..Len(threadsA)}
    /\ flagMutex \in {NoThread} \cup {DThread(t - 1) : t \in 1..Len(divThreads)}

\* C16: main holds no mutex where it spawns or joins workers (workers spawn
\* and join nothing); a thread holds a mutex only inside the block of one
\* flag check, flag set, push_back or line, holds no second mutex there, is
\* not waiting for anything, and its next step releases the mutex.
C16_NoLockAcrossSpawnOrJoin ==
    /\ [](SpawnsOrJoins => HeldBy(MainThread) = {})
    /\ []HoldersInsideBlock
    /\ [][ /\ (pc \in {"bPrint", "bCollect"} /\ pc' # pc) =>
                 (g_printMutex' # MainThread /\ g_collectMutex' # MainThread)
           /\ \A w \in 1..Len(threadsA) :
                 (w <= Len(threadsA') /\ threadsA[w].pc \in {"print", "collect"}
                  /\ threadsA'[w] # threadsA[w]) =>
                     /\ g_printMutex' # AThread(threadsA[w].threadId)
                     /\ g_collectMutex' # AThread(threadsA[w].threadId)
                     /\ Len(cout') + Len(g_collectedPrimes')
                           = Len(cout) + Len(g_collectedPrimes) + 1
           /\ \A t \in 1..Len(divThreads) :
                 (t <= Len(divThreads') /\ divThreads[t].pc \in {"check", "set"}
                  /\ divThreads'[t] # divThreads[t]) =>
                     flagMutex' = NoThread ]_vars

\* Main is in its spawn loop for a candidate while the first worker holds
\* flagMutex.
C16_Witness ==
    /\ pc = "bSpawn"
    /\ flagMutex = DThread(0)
    /\ HeldBy(MainThread) = {}

\* The phase of the run main is in. Idle: the configuration is being read
\* and the selection asked for. Configured: both are fixed (line 249).
\* Running: from the first spawn to the last join. Aggregating: past the
\* join loop (and the deferred output), before the end time. Done: main has
\* returned 0. Aborted: exit(1) in readConfig.
Phase ==
    IF pc \in {"readConfig", "prompt"} THEN "Idle"
    ELSE IF pc = "start" THEN "Configured"
    ELSE IF pc \in {"spawnA", "joinA", "bCall", "bSpawn", "bJoin", "bRet",
                    "bPrint", "bCollect"} THEN "Running"
    ELSE IF pc = "finish" THEN "Aggregating"
    ELSE IF pc = "done" THEN "Done"
    ELSE "Aborted"

\* No worker of either scheme is running or waits to be joined.
NoWorkerLeft ==
    /\ joinedA = Len(threadsA)
    /\ \A w \in 1..Len(threadsA) : threadsA[w].pc = "done"
    /\ joinedB = Len(divThreads)
    /\ \A t \in 1..Len(divThreads) : divThreads[t].pc = "done"

\* C17: main's phase changes only from Idle to Configured, Configured to
\* Running, Running to Aggregating and Aggregating to Done (or from Idle to
\* the exit of readConfig); from Configured on, numThreads >= 1,
\* maxNumber >= 2 and a selection in 1..4 are fixed and do not change; in
\* Aggregating and Done every worker has returned and been joined; and
\* nothing at all happens after Done.
C17_PhasesInOrder ==
    /\ [](Phase \in {"Configured", "Running", "Aggregating", "Done"} =>
             (numThreads >= 1 /\ maxNumber >= 2 /\ choice \in 1..4))
    /\ [](Phase = "Running" =>
             IF SchemeA THEN pc \in {"spawnA", "joinA"} ELSE SchemeB)
    /\ [](Phase \in {"Aggregating", "Done"} => NoWorkerLeft)
    /\ [][ /\ \/ Phase' = Phase
              \/ <<Phase, Phase'>> \in {<<"Idle", "Configured">>,
                                       <<"Configured", "Running">>,
                                       <<"Running", "Aggregating">>,
                                       <<"Aggregating", "Done">>,
                                       <<"Idle", "Aborted">>}
           /\ Phase # "Idle" => UNCHANGED <<numThreads, maxNumber, choice>>
           /\ Phase \notin {"Done", "Aborted"} ]_vars

\* A deferred Scheme A run with every worker of the largest budget has
\* reached Done.
C17_Witness ==
    /\ Phase = "Done"
    /\ choice = 2
    /\ Len(threadsA) = MaxThreads
    /\ NoWorkerLeft

\* C18: the Scheme A spawn loop never makes an assignment of negative size:
\* every worker's endNum >= startNum - 1, and the final worker's assignment
\* starts at or below maxNumber. With numThreads > maxNumber the chunk size
\* is 0, every worker before the last gets the empty [1, 0] and the last
\* gets [1, maxNumber].
C18_NoNegativeAssignment ==
    SchemeA =>
        /\ \A w \in 1..Len(threadsA) :
              /\ threadsA[w].startNum = StartOfRound(w - 1, numThreads, maxNumber)
              /\ threadsA[w].endNum >= threadsA[w].startNum - 1
        /\ Len(threadsA) = numThreads =>
              /\ threadsA[numThreads].startNum <= maxNumber
              /\ threadsA[numThreads].endNum = maxNumber
        /\ (Len(threadsA) = numThreads /\ numThreads > maxNumber) =>
              /\ rangeSize = 0
              /\ \A w \in 1..(numThreads - 1) :
                    threadsA[w].startNum = 1 /\ threadsA[w].endNum = 0
              /\ threadsA[numThreads].startNum = 1

\* Scheme A has spawned more workers than there are numbers.
C18_Witness ==
    /\ SchemeA
    /\ pc = "joinA"
    /\ numThreads > maxNumber
    /\ Len(threadsA) = numThreads
    /\ Assignment(numThreads) = 1..maxNumber

\* C18 as the spec words it: in a Scheme A run with numThreads > maxNumber
\* the final assignment can be of negative size, that is, this run's final
\* assignment [start, maxNumber] has maxNumber < start - 1, or there are
\* W > N >= 2 for which the spawn loop's final start has N < start - 1.
C18_FinalAssignmentCanBeNegative ==
    (SchemeA /\ Len(threadsA) = numThreads /\ numThreads > maxNumber) =>
        \/ maxNumber < threadsA[numThreads].startNum - 1
        \/ \E N \in 2..MaxRangeN : \E W \in (N + 1)..(MaxRangeN + MaxThreads) :
              N < StartOfRound(W - 1, W, N) - 1

\* C19: under fair scheduling, a run with a valid configuration and a
\* selection in 1..4 ends: main returns 0 with every worker returned and
\* joined and every mutex free.
C19_RunTerminates ==
    (pc = "start") ~>
        (/\ pc = "done"
         /\ status = "exit0"
         /\ NoWorkerLeft
         /\ g_printMutex = NoThread
         /\ g_collectMutex = NoThread
         /\ flagMutex = NoThread)

\* A run has ended in which a worker had to wait for another's mutex: every
\* worker of the largest budget wrote a line.
C19_Witness ==
    /\ pc = "done"
    /\ choice = 1
    /\ Len(threadsA) = MaxThreads
    /\ \A w \in 1..Len(threadsA) :
          \E k \in 1..Len(cout) : cout[k].who = AThread(threadsA[w].threadId)

\* C20: in a Scheme B run the lines written and the numbers collected are
\* strictly ascending at every moment; every line is main's; main is in the
\* sink only with every worker of the candidate returned and joined, and the
\* candidate is above everything reported before; no divisor worker ever
\* holds the print or the collection mutex; and cout and g_collectedPrimes
\* change only by a step of main, which appends the current candidate (or,
\* at the end of a deferred run, writes the sorted collection).
C20_SchemeBAscending ==
    /\ [](SchemeB =>
            /\ StrictlyAscending([k \in 1..Len(cout) |-> cout[k].n])
            /\ StrictlyAscending(g_collectedPrimes)
            /\ \A k \in 1..Len(cout) : cout[k].who = MainThread
            /\ g_printMutex \in {NoThread, MainThread}
            /\ g_collectMutex \in {NoThread, MainThread}
            /\ pc \in {"bRet", "bPrint", "bCollect"} =>
                  /\ joinedB = Len(divThreads)
                  /\ \A t \in 1..Len(divThreads) : divThreads[t].pc = "done"
                  /\ \A k \in 1..Len(cout) : cout[k].n < bn
                  /\ \A k \in 1..Len(g_collectedPrimes) :
                        g_collectedPrimes[k] < bn)
    /\ [][ (SchemeB /\ pc # "start"
            /\ <<cout, g_collectedPrimes>>' # <<cout, g_collectedPrimes>>) =>
              /\ divThreads' = divThreads
              /\ \/ /\ pc = "bPrint"
                    /\ cout' = Append(cout, [who |-> MainThread, n |-> bn])
                    /\ g_collectedPrimes' = g_collectedPrimes
                 \/ /\ pc = "bCollect"
                    /\ g_collectedPrimes' = Append(g_collectedPrimes, bn)
                    /\ cout' = cout
                 \/ /\ pc = "joinA"
                    /\ ~printImmediately
                    /\ g_collectedPrimes' = g_collectedPrimes
                    /\ [k \in 1..Len(cout') |-> cout'[k].n] = g_collectedPrimes
           ]_vars

\* Main writes the line of a prime whose call had a divisor worker, now
\* joined, after the lines of the primes below it.
C20_Witness ==
    /\ SchemeB
    /\ pc = "bPrint"
    /\ bn >= 23
    /\ Len(divThreads) >= 1
    /\ divThreads[1].n = bn
    /\ Len(cout) >= 8

=============================================================================
